---- MODULE Spec2Model ----
(***************************************************************************)
(* zsh-llm-suggestions: the backend driver LLMBackend.run and its two      *)
(* backends (CopilotBackend, OpenAIBackend).                               *)
(*                                                                         *)
(* A text is a sequence of characters; a character is a one-element        *)
(* string, a named character (NUL, BEL, ESC7...) or a literal of the       *)
(* source kept whole (a marker the code searches for, a message the code   *)
(* prints).                                                                *)
(***************************************************************************)
EXTENDS Integers, Sequences, FiniteSets, TLC

VARIABLES
    backend,    \* the class whose run() executes: "copilot" or "openai"
    mode,       \* argv[1]
    env,        \* what the run finds installed and set
    pc,         \* where run() is
    steps,      \* the checkpoints run() has passed, in order
    stdout,     \* the print() calls made so far, one text per call
    exitCode,   \* the process's exit status, NoExit while it runs
    uncaught,   \* TRUE when the process died of an exception nobody caught
    prereq,     \* what check_prerequisites returned: "unchecked", "ok" or "failed"
    stdinRead,  \* TRUE once sys.stdin.read() has been called
    validation, \* what validate_input did: [kind |-> "none" | "valid" | "invalid", val]
    buffer,     \* the validated input handed to generate/explain
    client,     \* OpenAIBackend.client
    children,   \* per child command: "none", "running", "exited", "killed", "reaped"
    wait,       \* the blocking wait run() is in: NoWait or [on, bounded, deadline, elapsed]
    output,     \* the request child's stdout as communicate() returned it
    error,      \* the request child's stderr as communicate() returned it
    authErr,    \* stderr of the gh auth status re-query
    reply,      \* what the chat-completion call produced
    calls,      \* how many backend requests were issued
    outcome,    \* what generate/explain did: [kind, val]
    fn,         \* the function called on its own: "none", "validate_input" or "post_process"
    arg,        \* the text it is called with
    results,    \* what each call returned, the first on arg, the next on the result before it
    installed,  \* the install directory: "none", "dir" (without the script) or "script"
    config,     \* the shell config file as its lines, NoConfigFile when none is found
    origin,     \* the shell config file as it was before the first run
    ipc,        \* where install() or uninstall() is: "idle" between runs, else the stage to come
    stage,      \* what the last stage of a run did: the prompt, the answer, the backup, the write
    session,    \* the run in progress or just ended: its command, its prompts, its failures
    lastBackup  \* what the latest backup file holds, NoConfigFile when none was made

\* the state of a run of run()
running == <<backend, mode, env, pc, steps, stdout, exitCode, uncaught, prereq, stdinRead,
             validation, buffer, client, children, wait, output, error, authErr, reply, calls, outcome>>

\* the state of a function called on its own
applied == <<fn, arg, results>>

\* the state the installer works on
setup == <<installed, config, origin, ipc, stage, session, lastBackup>>

vars == <<backend, mode, env, pc, steps, stdout, exitCode, uncaught, prereq, stdinRead,
          validation, buffer, client, children, wait, output, error, authErr, reply, calls, outcome,
          fn, arg, results,
          installed, config, origin, ipc, stage, session, lastBackup>>

-----------------------------------------------------------------------------
(* Bounds of the model *)

MaxStdinLen == 2
MaxOutLen == 3
MaxErrLen == 2
MaxReplyLen == 3
MaxValidateLen == 3
MaxPadLen == 1
MaxApplications == 2
MaxContentLen == 5
MaxCommandLen == 3

-----------------------------------------------------------------------------
(* Values *)

None == "None"
NoExit == 0 - 1  \* no exit status yet
NoConfigFile == <<>>  \* get_shell_config() returned None or the file does not exist

\* no stage of install() or uninstall() has run
NoStage ==
    [name |-> "none", read |-> TRUE, said |-> "nothing", asked |-> FALSE, response |-> "",
     answer |-> FALSE, backup |-> "none", write |-> "none"]

\* no run of install() or uninstall() has started
NoSession == [command |-> "none", prompts |-> 0, yeses |-> 0, failed |-> FALSE, aborted |-> FALSE]

\* neither install() nor uninstall() is part of the behaviour
NotInstalling ==
    /\ installed = "none"
    /\ config = NoConfigFile
    /\ origin = NoConfigFile
    /\ ipc = "none"
    /\ stage = NoStage
    /\ session = NoSession
    /\ lastBackup = NoConfigFile
NoWait == [on |-> "none", bounded |-> FALSE, deadline |-> 0, elapsed |-> 0]
NoOutcome == [kind |-> "none", val |-> <<>>]
NoReply == [kind |-> "none", val |-> <<>>]

NoArgv == "<no argv[1]>"  \* the command line holds no mode argument

NUL == "<NUL>"
BEL == "<BEL>"
BACKTICK == "<backtick>"

Min(S) == CHOOSE x \in S : \A y \in S : x <= y
Max(S) == CHOOSE x \in S : \A y \in S : x >= y

\* all texts over the characters A of length at most n
TextsUpTo(A, n) == UNION {[1..k -> A] : k \in 0..n}

\* needle in text: the literal occurs somewhere in the text
Contains(text, needle) == \E i \in 1..Len(text) : text[i] = needle

\* text.find(needle): the position of the first occurrence, 0 when there is none
Find(text, needle) ==
    LET at == {i \in 1..Len(text) : text[i] = needle}
    IN IF at = {} THEN 0 ELSE Min(at)

\* str.isspace() of one character
IsSpace(c) == c \in {" ", "\t", "\n", "\r", "\f"}

\* str.strip(): leading and trailing whitespace removed
Strip(text) ==
    LET keep == {i \in 1..Len(text) : ~IsSpace(text[i])}
    IN IF keep = {} THEN <<>> ELSE SubSeq(text, Min(keep), Max(keep))

-----------------------------------------------------------------------------
(* base.py *)

MISSING_PREREQUISITES == "zsh-llm-suggestions missing prerequisites:"
MAX_INPUT_LENGTH == 2000

\* str.isprintable() of one character
IsPrintable(c) == c \notin {NUL, BEL, "\t", "\n", "\r", "\f"}

KeptByValidate(c) == IsPrintable(c) \/ c \in {"\n", "\r", "\t"}

\* ''.join(char for char in text if char.isprintable() or char in '\n\r\t')
Sanitize(text) == SelectSeq(text, KeptByValidate)

\* validate_input testing the length before the null bytes
validate_input_LengthFirst(text) ==
    IF Len(text) > MAX_INPUT_LENGTH
    THEN [ok |-> FALSE,
          val |-> <<"Input too long (max ", ToString(MAX_INPUT_LENGTH),
                    " characters, got ", ToString(Len(text)), ")">>]
    ELSE IF Contains(text, NUL)
    THEN [ok |-> FALSE, val |-> <<"Input contains null bytes">>]
    ELSE [ok |-> TRUE, val |-> Strip(Sanitize(text))]

\* validate_input testing the length of the filtered text
validate_input_LengthAfterSanitize(text) ==
    IF Contains(text, NUL)
    THEN [ok |-> FALSE, val |-> <<"Input contains null bytes">>]
    ELSE IF Len(Sanitize(text)) > MAX_INPUT_LENGTH
    THEN [ok |-> FALSE,
          val |-> <<"Input too long (max ", ToString(MAX_INPUT_LENGTH),
                    " characters, got ", ToString(Len(Sanitize(text))), ")">>]
    ELSE [ok |-> TRUE, val |-> Strip(Sanitize(text))]

\* validate_input trimming before it filters
validate_input_StripFirst(text) ==
    IF Contains(text, NUL)
    THEN [ok |-> FALSE, val |-> <<"Input contains null bytes">>]
    ELSE IF Len(text) > MAX_INPUT_LENGTH
    THEN [ok |-> FALSE,
          val |-> <<"Input too long (max ", ToString(MAX_INPUT_LENGTH),
                    " characters, got ", ToString(Len(text)), ")">>]
    ELSE [ok |-> TRUE, val |-> Sanitize(Strip(text))]

\* validate_input without the final trim
validate_input_NoStrip(text) ==
    IF Contains(text, NUL)
    THEN [ok |-> FALSE, val |-> <<"Input contains null bytes">>]
    ELSE IF Len(text) > MAX_INPUT_LENGTH
    THEN [ok |-> FALSE,
          val |-> <<"Input too long (max ", ToString(MAX_INPUT_LENGTH),
                    " characters, got ", ToString(Len(text)), ")">>]
    ELSE [ok |-> TRUE, val |-> Sanitize(text)]

\* validate_input: [ok |-> TRUE, val |-> sanitized] or [ok |-> FALSE, val |-> message]
validate_input(text) ==
    IF Contains(text, NUL)
    THEN [ok |-> FALSE, val |-> <<"Input contains null bytes">>]
    ELSE IF Len(text) > MAX_INPUT_LENGTH
    THEN [ok |-> FALSE,
          val |-> <<"Input too long (max ", ToString(MAX_INPUT_LENGTH),
                    " characters, got ", ToString(Len(text)), ")">>]
    ELSE [ok |-> TRUE, val |-> Strip(Sanitize(text))]

\* highlight_explanation under each state of the highlighter
HIGHLIGHT_ON == "<ESC>[..m"
HIGHLIGHT_OFF == "<ESC>[39;49;00m"

Highlighted(explanation) == <<HIGHLIGHT_ON>> \o explanation \o <<HIGHLIGHT_OFF, "\n">>

\* [kind |-> "return", val] or [kind |-> "raise", val |-> the exception's message]
Return(text) == [kind |-> "return", val |-> text]
Raise(message) == [kind |-> "raise", val |-> message]

highlight_explanation(explanation, pygments) ==
    IF pygments \in {"disabled", "absent"} THEN Return(explanation)
    ELSE IF pygments = "works" THEN Return(Highlighted(explanation))
    ELSE Raise(<<"highlighter error">>)

\* the lines run() prints
UnknownModeLine_WithoutMode(m) ==
    <<"ERROR: something went wrong in zsh-llm-suggestions, please report a bug. Got ",
      "unknown mode">>
UnknownModeLine(m) ==
    <<"ERROR: something went wrong in zsh-llm-suggestions, please report a bug. Got ",
      "unknown mode", ": ", m>>
InvalidInputLine(message) == <<"echo \"ERROR: Invalid input: ">> \o message \o <<"\"">>
RequestFailedLine_ApiPrefix(message) ==
    <<"echo \"ERROR: API request failed: ">> \o message \o <<"\"">>
RequestFailedLine(message) == <<"echo \"ERROR: Request failed: ">> \o message \o <<"\"">>

-----------------------------------------------------------------------------
(* copilot_backend.py *)

\* the line main() prints when the command line holds no mode
MissingModeLine == <<"ERROR: Mode argument required (generate or explain)">>

-----------------------------------------------------------------------------
(* backends/copilot.py *)

REQUEST_TIMEOUT == 30

OAUTH_MARKER == "Error: No valid OAuth token detected"
UNKNOWN_COMMAND_MARKER == "unknown command \"copilot\" for \"gh\""
NOT_LOGGED_IN_MARKER == "You are not logged into any GitHub hosts"
NO_SUGGESTION_MARKER == "Suggestion not readily available. Please revise for better results."
SUGGESTION_NEEDLE == "# Suggestion:"
REDRAW_SEQUENCE == "<LF><LF><ESC>7<ESC>[?"
EXPLANATION_NEEDLE == "Explanation<ESC>[0m<ESC>[1m:"
RESET == "<ESC>[0m"

CopilotMissingGhLine ==
    <<"echo \"", MISSING_PREREQUISITES,
      " Install GitHub CLI first by following https://github.com/cli/cli#installation", "\"">>
AuthRemedy ==
    <<MISSING_PREREQUISITES, " Authenticate with github first: ", "gh auth login",
      " --web -h github.com">>
InstallExtensionRemedy ==
    <<MISSING_PREREQUISITES, " Install github copilot extension first: ",
      "gh extension install github/gh-copilot">>
TimeoutMessage == <<"Request timed out after ", ToString(REQUEST_TIMEOUT), " seconds">>
NoAnswer == <<"No answer from GitHub CoPilot.">>

\* the text after the first occurrence of the needle; the whole text without one
AfterNeedle(text, needle) ==
    LET idx == Find(text, needle)
    IN IF idx # 0 THEN SubSeq(text, idx + 1, Len(text)) ELSE text

\* the text before the first occurrence of the needle; the whole text without one
BeforeNeedle(text, needle) ==
    LET idx == Find(text, needle)
    IN IF idx # 0 THEN SubSeq(text, 1, idx - 1) ELSE text

\* generate cutting at the needle only, the prompt redraw left in
ExtractSuggestion_NoRedrawCut(out) ==
    Strip(AfterNeedle(out, SUGGESTION_NEEDLE))

\* generate: "# Suggestion:" ... prompt redraw, stripped
ExtractSuggestion(out) ==
    Strip(BeforeNeedle(AfterNeedle(out, SUGGESTION_NEEDLE), REDRAW_SEQUENCE))

\* the end of the longest prefix matching ( +\n)* from position i on
RECURSIVE BlankLinesEnd(_, _)
BlankLinesEnd(text, i) ==
    LET stop == Min({j \in i..(Len(text) + 1) : j = Len(text) + 1 \/ text[j] # " "})
    IN IF stop > i /\ stop <= Len(text) /\ text[stop] = "\n"
       THEN BlankLinesEnd(text, stop + 1)
       ELSE i

\* re.sub(r"^\x1b\x5b\x30\x6d( +\n)*", "\x1b\x5b\x30\x6d", text)
DropLeadingBlankLines(text) ==
    IF text # <<>> /\ text[1] = RESET
    THEN <<RESET>> \o SubSeq(text, BlankLinesEnd(text, 2), Len(text))
    ELSE text

\* explain: "Explanation:" ..., leading blank styled lines dropped, stripped
ExtractExplanation(out) ==
    Strip(DropLeadingBlankLines(AfterNeedle(out, EXPLANATION_NEEDLE)))

\* the no-suggestion marker of stdout tested before the markers of stderr
CopilotClassify_StdoutFirst(out, err) ==
    IF Contains(out, NO_SUGGESTION_MARKER) THEN "no_suggestion"
    ELSE IF Contains(err, OAUTH_MARKER) THEN "oauth"
    ELSE IF Contains(err, UNKNOWN_COMMAND_MARKER) THEN "unknown_command"
    ELSE "extract"

\* which branch a finished request takes, from stderr first and stdout second
CopilotClassify(out, err) ==
    IF Contains(err, OAUTH_MARKER) THEN "oauth"
    ELSE IF Contains(err, UNKNOWN_COMMAND_MARKER) THEN "unknown_command"
    ELSE IF Contains(out, NO_SUGGESTION_MARKER) THEN "no_suggestion"
    ELSE "extract"

\* the re-query's answer ignored
CopilotAfterAuthStatus_AlwaysInstall(statusErr) == Raise(InstallExtensionRemedy)

\* the branch taken after gh auth status answered
CopilotAfterAuthStatus(statusErr) ==
    IF Contains(statusErr, NOT_LOGGED_IN_MARKER)
    THEN Raise(AuthRemedy)
    ELSE Raise(InstallExtensionRemedy)

\* the tail of generate/explain without the test for an empty answer
CopilotAnswer_NoEmptyCheck(m, out, err) ==
    Return(IF m = "generate" THEN ExtractSuggestion(out) ELSE ExtractExplanation(out))

\* the tail of generate/explain raising on any text of stderr
CopilotAnswer_RaiseOnAnyStderr(m, out, err) ==
    IF err # <<>> THEN Raise(err)
    ELSE Return(IF m = "generate" THEN ExtractSuggestion(out) ELSE ExtractExplanation(out))

\* the tail of generate/explain: the answer, or the error when there is none
CopilotAnswer(m, out, err) ==
    LET answer == IF m = "generate" THEN ExtractSuggestion(out) ELSE ExtractExplanation(out)
    IN IF answer = <<>> /\ err # <<>> THEN Raise(err) ELSE Return(answer)

\* generate/explain without the test for the no-suggestion marker
CopilotResult_NoSuggestionUnchecked(m, out, err) ==
    IF CopilotClassify(out, err) = "oauth" THEN Raise(AuthRemedy)
    ELSE CopilotAnswer(m, out, err)

\* generate/explain once communicate() returned and no re-query is needed
CopilotResult(m, out, err) ==
    LET class == CopilotClassify(out, err)
    IN IF class = "oauth" THEN Raise(AuthRemedy)
       ELSE IF class = "no_suggestion" THEN Return(NoAnswer)
       ELSE CopilotAnswer(m, out, err)

-----------------------------------------------------------------------------
(* backends/openai.py *)

OpenAIMissingLibraryLine ==
    <<"echo \"", MISSING_PREREQUISITES, " Install OpenAI Python API.", "\"",
      " && ", "pip3 install openai">>
OpenAIMissingKeyLine ==
    <<"echo \"", MISSING_PREREQUISITES, " ", "OPENAI_API_KEY", " is not set.", "\"",
      " && ", "export ", "OPENAI_API_KEY",
      "=\"<copy from https://platform.openai.com/api-keys>\"">>

\* ^ without the MULTILINE flag: the start of the text only
AtLineStart_NoMultiline(text, i) == i = 1

\* ^ under (?m): the start of the text or of a line
AtLineStart(text, i) == i = 1 \/ text[i - 1] = "\n"

IsFenceAt(text, i) ==
    i >= 1 /\ i + 2 <= Len(text) /\ text[i] = BACKTICK /\ text[i + 1] = BACKTICK /\ text[i + 2] = BACKTICK

\* (?:zsh)? at position i, the sh alternative left out
LangEnd_ZshOnly(text, i) ==
    IF i + 2 <= Len(text) /\ text[i] = "z" /\ text[i + 1] = "s" /\ text[i + 2] = "h" THEN i + 3
    ELSE i

\* (?:zsh|sh)? at position i: the position after it
LangEnd(text, i) ==
    IF i + 2 <= Len(text) /\ text[i] = "z" /\ text[i + 1] = "s" /\ text[i + 2] = "h" THEN i + 3
    ELSE IF i + 1 <= Len(text) /\ text[i] = "s" /\ text[i + 1] = "h" THEN i + 2
    ELSE i

\* \s* at position i, greedy: the position after it
WsEnd(text, i) ==
    Min({j \in i..(Len(text) + 1) : j = Len(text) + 1 \/ ~IsSpace(text[j])})

\* re.sub(r'(?m)^<fence>(?:zsh|sh)?\s*\n?', '', text), scanning from position i
RECURSIVE StripOpeners(_, _)
StripOpeners(text, i) ==
    IF i > Len(text) THEN <<>>
    ELSE IF AtLineStart(text, i) /\ IsFenceAt(text, i)
    THEN StripOpeners(text, WsEnd(text, LangEnd(text, i + 3)))
    ELSE <<text[i]>> \o StripOpeners(text, i + 1)

\* ^<fence>\s*$ at position q: the position after the match, 0 when it does not match
FenceTail(text, q) ==
    IF q <= Len(text) /\ AtLineStart(text, q) /\ IsFenceAt(text, q)
    THEN LET k == WsEnd(text, q + 3)
             nl == {j \in (q + 3)..(k - 1) : text[j] = "\n"}
         IN IF k = Len(text) + 1 THEN k
            ELSE IF nl # {} THEN Max(nl)
            ELSE 0
    ELSE 0

\* \n?^<fence>\s*$ at position p: the position after the match, 0 when it does not match
ClosingMatchEnd(text, p) ==
    IF text[p] = "\n" /\ FenceTail(text, p + 1) # 0
    THEN FenceTail(text, p + 1)
    ELSE FenceTail(text, p)

\* re.sub(r'(?m)\n?^<fence>\s*$', '', text), scanning from position i
RECURSIVE StripClosers(_, _)
StripClosers(text, i) ==
    IF i > Len(text) THEN <<>>
    ELSE IF ClosingMatchEnd(text, i) # 0
    THEN StripClosers(text, ClosingMatchEnd(text, i))
    ELSE <<text[i]>> \o StripClosers(text, i + 1)

\* re.sub(r'\n{3,}', '\n\n', text), scanning from position i
RECURSIVE CollapseNewlines(_, _)
CollapseNewlines(text, i) ==
    IF i > Len(text) THEN <<>>
    ELSE IF text[i] = "\n"
    THEN LET stop == Min({j \in i..(Len(text) + 1) : j = Len(text) + 1 \/ text[j] # "\n"})
             n == stop - i
         IN (IF n >= 3 THEN <<"\n", "\n">> ELSE SubSeq(text, i, stop - 1))
            \o CollapseNewlines(text, stop)
    ELSE <<text[i]>> \o CollapseNewlines(text, i + 1)

\* the three substitutions without the trim that follows them
StripFences_NoFinalStrip(result) ==
    CollapseNewlines(StripClosers(StripOpeners(result, 1), 1), 1)

\* generate's post-processing of the stripped content
StripFences(result) ==
    Strip(CollapseNewlines(StripClosers(StripOpeners(result, 1), 1), 1))

\* generate's post-processing of the reply's content
GeneratePostProcess(content) == StripFences(Strip(content))

\* generate/explain once the chat-completion call ended with reply r
OpenAIResult(m, r, pygments) ==
    IF r.kind = "error" THEN Raise(<<"API request failed: ">> \o r.val)
    ELSE IF r.kind = "null_content" THEN Raise(<<"API returned empty response">>)
    ELSE IF m = "generate" THEN Return(StripFences(Strip(r.val)))
    ELSE highlight_explanation(Strip(r.val), pygments)

-----------------------------------------------------------------------------
(* openai_backend.py, the standalone entry point *)

\* the line main() prints when the chat-completion call raised
StandaloneApiFailedLine(message) ==
    <<"echo \"ERROR: API request failed: ">> \o message \o <<"\"">>

\* what the process leaves: the print() calls, the exit status, and whether it
\* died of an exception nobody caught
Printed(line, code) == [stdout |-> <<line>>, exitCode |-> code, uncaught |-> FALSE]
Traceback == [stdout |-> <<>>, exitCode |-> 1, uncaught |-> TRUE]

\* main() for mode m in environment e, with v what validate_input did on stdin
\* ([kind |-> "none"] when stdin could not be decoded) and r what the
\* chat-completion call produced
StandaloneMain(m, e, v, r) ==
    IF m \notin {"generate", "explain"} THEN Printed(UnknownModeLine(m), 1)
    ELSE IF ~e.lib THEN Printed(OpenAIMissingLibraryLine, 1)
    ELSE IF e.key = None THEN Printed(OpenAIMissingKeyLine, 1)
    ELSE IF e.ctor = "raises" THEN Traceback
    ELSE IF v.kind = "none" THEN Traceback
    ELSE IF v.kind = "invalid" THEN Printed(InvalidInputLine(v.val), 1)
    ELSE IF r.kind = "error" THEN Printed(StandaloneApiFailedLine(r.val), 1)
    ELSE IF r.kind = "null_content" THEN Traceback  \* None.strip(): AttributeError
    ELSE IF m = "generate" THEN Printed(StripFences(Strip(r.val)), 0)
    ELSE LET shown == highlight_explanation(Strip(r.val), e.pygments)
         IN IF shown.kind = "return" THEN Printed(shown.val, 0) ELSE Traceback

-----------------------------------------------------------------------------
(* The inputs of a run *)

Modes == {"generate", "explain", "genrate", "Explain", ""}
Backends == {"copilot", "openai"}

LongText(n) == [i \in 1..n |-> "a"]

StdinChars == {"a", " ", NUL, BEL}
StdinTexts ==
    TextsUpTo(StdinChars, MaxStdinLen)
        \cup {LongText(MAX_INPUT_LENGTH), LongText(MAX_INPUT_LENGTH + 1),
              <<BEL>> \o LongText(MAX_INPUT_LENGTH)}

GenerateOutChars == {NO_SUGGESTION_MARKER, SUGGESTION_NEEDLE, REDRAW_SEQUENCE, "c", " "}
ExplainOutChars == {NO_SUGGESTION_MARKER, EXPLANATION_NEEDLE, RESET, "c", " ", "\n"}
\* what gh copilot suggest prints: a banner, the needle, the suggestion, the
\* prompt redraw and what follows it
SuggestionOutputs ==
    {<<"b", SUGGESTION_NEEDLE, " ", "c", " ", "c", REDRAW_SEQUENCE, "a">>,
     <<"b", SUGGESTION_NEEDLE, "c", REDRAW_SEQUENCE, "a", REDRAW_SEQUENCE, "a">>,
     <<REDRAW_SEQUENCE, "b", SUGGESTION_NEEDLE, "c", SUGGESTION_NEEDLE, "c", " ">>,
     <<"b", SUGGESTION_NEEDLE, " ", REDRAW_SEQUENCE, "a">>}

OutTexts(m) ==
    TextsUpTo(IF m = "generate" THEN GenerateOutChars ELSE ExplainOutChars, MaxOutLen)
    \cup (IF m = "generate" THEN SuggestionOutputs ELSE {})

ErrChars == {OAUTH_MARKER, UNKNOWN_COMMAND_MARKER, "e"}
\* a stderr that closes the quoted string, runs a command and opens another
QuotingErrTexts == {<<"\"", ";", "id", ";", "\"">>}

ErrTexts == TextsUpTo(ErrChars, MaxErrLen) \cup QuotingErrTexts

AuthStatusErrTexts ==
    {<<>>, <<"e">>, <<NOT_LOGGED_IN_MARKER>>, <<"e", NOT_LOGGED_IN_MARKER, "\n">>}

ReplyChars == {BACKTICK, "\n", " ", "c"}
FencedReplies ==
    {<<BACKTICK, BACKTICK, BACKTICK, "s", "h", "\n", "c", "\n", BACKTICK, BACKTICK, BACKTICK>>,
     <<BACKTICK, BACKTICK, BACKTICK, "\n", BACKTICK, BACKTICK, BACKTICK>>,
     <<"c", "\n", BACKTICK, BACKTICK, BACKTICK, "z", "s", "h", "\n", "c", " ", "c", "\n",
       BACKTICK, BACKTICK, BACKTICK>>}
ApiReplies ==
    {[kind |-> "error", val |-> e] :
        e \in {<<"Request timed out.">>, <<"e", "\n">>, <<"$", "(", "id", ")">>}}
        \cup {[kind |-> "null_content", val |-> <<>>]}
        \cup {[kind |-> "content", val |-> c] :
                 c \in TextsUpTo(ReplyChars, MaxReplyLen) \cup FencedReplies}

\* the environment a run starts in; a run reads only its own backend's part
Environments(b) ==
    IF b = "copilot"
    THEN [gh : {"absent", "noexec", "present"}, lib : {FALSE}, key : {None},
          ctor : {"ok"}, pygments : {"absent"}]
    ELSE [gh : {"absent"}, lib : BOOLEAN, key : {None, "sk-1"},
          ctor : {"ok", "raises"}, pygments : {"disabled", "absent", "works", "broken"}]

ChildCommands == {"version", "request", "authstatus"}

-----------------------------------------------------------------------------
(* LLMBackend.run *)

Init ==
    /\ backend \in Backends
    /\ mode \in Modes \cup (IF backend = "copilot" THEN {NoArgv} ELSE {})
    /\ env \in Environments(backend)
    /\ pc = "start"
    /\ steps = <<>>
    /\ stdout = <<>>
    /\ exitCode = NoExit
    /\ uncaught = FALSE
    /\ prereq = "unchecked"
    /\ stdinRead = FALSE
    /\ validation = [kind |-> "none", val |-> <<>>]
    /\ buffer = <<>>
    /\ client = None
    /\ children = [c \in ChildCommands |-> "none"]
    /\ wait = NoWait
    /\ output = <<>>
    /\ error = <<>>
    /\ authErr = <<>>
    /\ reply = NoReply
    /\ calls = 0
    /\ outcome = NoOutcome
    /\ fn = "none"
    /\ arg = <<>>
    /\ results = <<>>
    /\ NotInstalling

\* print(line); sys.exit(code)
PrintAndExit(line, code) ==
    /\ stdout' = Append(stdout, line)
    /\ exitCode' = code
    /\ uncaught' = FALSE
    /\ pc' = "exited"
    /\ wait' = NoWait

\* an exception leaves run(): the interpreter prints a traceback on stderr, status 1
DieUncaught ==
    /\ stdout' = stdout
    /\ exitCode' = 1
    /\ uncaught' = TRUE
    /\ pc' = "exited"
    /\ wait' = NoWait

\* the except clause without its sys.exit(1)
Conclude_NoExitOnError(result) ==
    /\ outcome' = result
    /\ stdout' = Append(stdout, IF result.kind = "return" THEN result.val
                                ELSE RequestFailedLine(result.val))
    /\ exitCode' = 0
    /\ uncaught' = FALSE
    /\ pc' = "exited"
    /\ wait' = NoWait

\* the end of run(): generate/explain returned or raised inside the try
Conclude(result) ==
    /\ outcome' = result
    /\ IF result.kind = "return"
       THEN /\ stdout' = Append(stdout, result.val)
            /\ exitCode' = 0
            /\ uncaught' = FALSE
            /\ pc' = "exited"
            /\ wait' = NoWait
       ELSE PrintAndExit(RequestFailedLine(result.val), 1)

\* the mode check without its sys.exit(1)
ValidateMode_NoExit ==
    /\ pc = "start"
    /\ mode # NoArgv
    /\ steps' = Append(steps, "mode")
    /\ stdout' = IF mode \notin {"generate", "explain"}
                 THEN Append(stdout, UnknownModeLine(mode)) ELSE stdout
    /\ pc' = "prereq"
    /\ UNCHANGED <<backend, mode, env, exitCode, uncaught, wait, stdinRead, buffer, client,
                   children, output, error, authErr, reply, calls, outcome, prereq,
                   validation>>
    /\ UNCHANGED applied
    /\ UNCHANGED setup

\* checkpoint 1: the mode
\* copilot_backend.main() without a mode on the command line; with one it
\* calls run(mode), which starts at ValidateMode
CopilotMainWithoutMode ==
    /\ pc = "start"
    /\ backend = "copilot"
    /\ mode = NoArgv
    /\ PrintAndExit(MissingModeLine, 1)
    /\ UNCHANGED <<backend, mode, env, steps, stdinRead, buffer, client, children, output,
                   error, authErr, reply, calls, outcome, prereq, validation>>
    /\ UNCHANGED applied
    /\ UNCHANGED setup

ValidateMode ==
    /\ pc = "start"
    /\ mode # NoArgv
    /\ steps' = Append(steps, "mode")
    /\ IF mode \notin {"generate", "explain"}
       THEN PrintAndExit(UnknownModeLine(mode), 1)
       ELSE /\ pc' = "prereq"
            /\ UNCHANGED <<stdout, exitCode, uncaught, wait>>
    /\ UNCHANGED <<backend, mode, env, stdinRead, buffer, client, children, output, error,
                   authErr, reply, calls, outcome,
                   prereq, validation>>
    /\ UNCHANGED applied
    /\ UNCHANGED setup

\* checkpoint 2, CopilotBackend: subprocess.run(["gh", "version"], check=True) starts
CopilotCheckPrerequisites ==
    /\ pc = "prereq"
    /\ backend = "copilot"
    /\ steps' = Append(steps, "prereq")
    /\ CASE env.gh = "absent" ->
                \* FileNotFoundError, caught: (False, remedy)
                /\ prereq' = "failed"
                /\ PrintAndExit(CopilotMissingGhLine, 1)
                /\ UNCHANGED children
         [] env.gh = "noexec" ->
                \* PermissionError, which the except clause does not name
                /\ DieUncaught
                /\ UNCHANGED <<children, prereq>>
         [] OTHER ->
                /\ children' = [children EXCEPT !["version"] = "running"]
                /\ wait' = [on |-> "version", bounded |-> FALSE, deadline |-> 0, elapsed |-> 0]
                /\ pc' = "probe_wait"
                /\ UNCHANGED <<stdout, exitCode, uncaught, prereq>>
    /\ UNCHANGED <<backend, mode, env, stdinRead, buffer, client, output, error, authErr,
                   reply, calls, outcome,
                   validation>>
    /\ UNCHANGED applied
    /\ UNCHANGED setup

\* the gh version child exits with status rc and subprocess.run returns or raises
ProbeExit ==
    /\ pc = "probe_wait"
    /\ \E rc \in {0, 1} :
          /\ children' = [children EXCEPT !["version"] = "reaped"]
          /\ IF rc # 0
             THEN \* CalledProcessError, caught: (False, remedy)
                  /\ prereq' = "failed"
                  /\ PrintAndExit(CopilotMissingGhLine, 1)
             ELSE /\ prereq' = "ok"
                  /\ pc' = "stdin"
                  /\ wait' = NoWait
                  /\ UNCHANGED <<stdout, exitCode, uncaught>>
    /\ UNCHANGED <<backend, mode, env, steps, stdinRead, buffer, client, output, error,
                   authErr, reply, calls, outcome,
                   validation>>
    /\ UNCHANGED applied
    /\ UNCHANGED setup

\* checkpoint 2, OpenAIBackend
\* check_prerequisites testing the key before the library
OpenAICheckPrerequisites_KeyFirst ==
    /\ pc = "prereq"
    /\ backend = "openai"
    /\ steps' = Append(steps, "prereq")
    /\ CASE env.key = None ->
                /\ prereq' = "failed"
                /\ PrintAndExit(OpenAIMissingKeyLine, 1)
                /\ UNCHANGED client
         [] env.key # None /\ ~env.lib ->
                /\ prereq' = "failed"
                /\ PrintAndExit(OpenAIMissingLibraryLine, 1)
                /\ UNCHANGED client
         [] env.lib /\ env.key # None /\ env.ctor = "raises" ->
                /\ DieUncaught
                /\ UNCHANGED <<client, prereq>>
         [] OTHER ->
                /\ client' = "OpenAI"
                /\ prereq' = "ok"
                /\ pc' = "stdin"
                /\ UNCHANGED <<stdout, exitCode, uncaught, wait>>
    /\ UNCHANGED <<backend, mode, env, stdinRead, buffer, children, output, error, authErr,
                   reply, calls, outcome,
                   validation>>
    /\ UNCHANGED applied
    /\ UNCHANGED setup

OpenAICheckPrerequisites ==
    /\ pc = "prereq"
    /\ backend = "openai"
    /\ steps' = Append(steps, "prereq")
    /\ CASE ~env.lib ->
                /\ prereq' = "failed"
                /\ PrintAndExit(OpenAIMissingLibraryLine, 1)
                /\ UNCHANGED client
         [] env.lib /\ env.key = None ->
                /\ prereq' = "failed"
                /\ PrintAndExit(OpenAIMissingKeyLine, 1)
                /\ UNCHANGED client
         [] env.lib /\ env.key # None /\ env.ctor = "raises" ->
                \* openai.OpenAI(api_key=...) raises outside any try
                /\ DieUncaught
                /\ UNCHANGED <<client, prereq>>
         [] OTHER ->
                /\ client' = "OpenAI"
                /\ prereq' = "ok"
                /\ pc' = "stdin"
                /\ UNCHANGED <<stdout, exitCode, uncaught, wait>>
    /\ UNCHANGED <<backend, mode, env, stdinRead, buffer, children, output, error, authErr,
                   reply, calls, outcome,
                   validation>>
    /\ UNCHANGED applied
    /\ UNCHANGED setup

\* checkpoint 3: sys.stdin.read() and validate_input
ReadStdin ==
    /\ pc = "stdin"
    /\ stdinRead' = TRUE
    /\ \/ \* the bytes on stdin are not valid text: UnicodeDecodeError outside any try
          /\ steps' = Append(steps, "stdin")
          /\ DieUncaught
          /\ UNCHANGED <<buffer, validation>>
       \/ \E text \in StdinTexts :
             /\ steps' = steps \o <<"stdin", "validate">>
             /\ LET v == validate_input(text)
                IN IF v.ok
                   THEN /\ validation' = [kind |-> "valid", val |-> v.val]
                        /\ buffer' = v.val
                        /\ pc' = "dispatch"
                        /\ UNCHANGED <<stdout, exitCode, uncaught, wait>>
                   ELSE /\ validation' = [kind |-> "invalid", val |-> v.val]
                        /\ PrintAndExit(InvalidInputLine(v.val), 1)
                        /\ UNCHANGED buffer
    /\ UNCHANGED <<backend, mode, env, client, children, output, error, authErr, reply,
                   calls, outcome,
                   prereq>>
    /\ UNCHANGED applied
    /\ UNCHANGED setup

\* checkpoint 4, CopilotBackend: Popen(["gh", "copilot", ...]) and communicate(timeout=30.0)
CopilotDispatch ==
    /\ pc = "dispatch"
    /\ backend = "copilot"
    /\ steps' = Append(steps, "dispatch")
    /\ calls' = calls + 1
    /\ children' = [children EXCEPT !["request"] = "running"]
    /\ wait' = [on |-> "request", bounded |-> TRUE, deadline |-> REQUEST_TIMEOUT, elapsed |-> 0]
    /\ pc' = "request_wait"
    /\ UNCHANGED <<backend, mode, env, stdout, exitCode, uncaught, stdinRead, buffer, client,
                   output, error, authErr, reply, outcome,
                   prereq, validation>>
    /\ UNCHANGED applied
    /\ UNCHANGED setup

\* the deadline of the wait run() is blocked in passes with the child still running
DeadlinePasses ==
    /\ wait.on # "none"
    /\ wait.bounded
    /\ wait.elapsed < wait.deadline
    /\ wait' = [wait EXCEPT !.elapsed = wait.deadline]
    /\ UNCHANGED <<backend, mode, env, pc, steps, stdout, exitCode, uncaught, stdinRead,
                   buffer, client, children, output, error, authErr, reply, calls, outcome,
                   prereq, validation>>
    /\ UNCHANGED applied
    /\ UNCHANGED setup

\* the request child exits before the deadline: communicate() returns (output, error)
\* and generate/explain classify them
RequestCompleted ==
    /\ pc = "request_wait"
    /\ wait.elapsed < wait.deadline
    /\ \E out \in OutTexts(mode), err \in ErrTexts :
          /\ output' = out
          /\ error' = err
          /\ IF CopilotClassify(out, err) = "unknown_command"
             THEN \* subprocess.run(["gh", "auth", "status"]) starts
                  /\ children' = [children EXCEPT !["request"] = "reaped",
                                                  !["authstatus"] = "running"]
                  /\ wait' = [on |-> "authstatus", bounded |-> FALSE, deadline |-> 0, elapsed |-> 0]
                  /\ pc' = "auth_wait"
                  /\ UNCHANGED <<stdout, exitCode, uncaught, outcome>>
             ELSE /\ children' = [children EXCEPT !["request"] = "reaped"]
                  /\ Conclude(CopilotResult(mode, out, err))
    /\ UNCHANGED <<backend, mode, env, steps, stdinRead, buffer, client, authErr, reply,
                   calls,
                   prereq, validation>>
    /\ UNCHANGED applied
    /\ UNCHANGED setup

\* TimeoutExpired at the deadline: process.kill() and the error raised at once,
\* without the communicate() that reaps the child
RequestTimeout_NoReap ==
    /\ pc = "request_wait"
    /\ wait.elapsed = wait.deadline
    /\ children' = [children EXCEPT !["request"] = "killed"]
    /\ Conclude(Raise(TimeoutMessage))
    /\ UNCHANGED <<backend, mode, env, steps, stdinRead, buffer, client, output, error,
                   authErr, reply, calls, prereq, validation>>
    /\ UNCHANGED applied
    /\ UNCHANGED setup

\* TimeoutExpired at the deadline: process.kill(), then communicate() without a deadline
RequestTimeout ==
    /\ pc = "request_wait"
    /\ wait.elapsed = wait.deadline
    /\ children' = [children EXCEPT !["request"] = "killed"]
    /\ wait' = [on |-> "request", bounded |-> FALSE, deadline |-> 0, elapsed |-> 0]
    /\ pc' = "kill_wait"
    /\ UNCHANGED <<backend, mode, env, steps, stdout, exitCode, uncaught, stdinRead, buffer,
                   client, output, error, authErr, reply, calls, outcome,
                   prereq, validation>>
    /\ UNCHANGED applied
    /\ UNCHANGED setup

\* the killed child is gone and its pipes are at end of file: communicate() returns
\* and the timeout error is raised
\* the request started again once the killed child is reaped
KilledChildReaped_Retry ==
    /\ pc = "kill_wait"
    /\ children["request"] = "killed"
    /\ IF calls < 2
       THEN /\ children' = [children EXCEPT !["request"] = "running"]
            /\ calls' = calls + 1
            /\ wait' = [on |-> "request", bounded |-> TRUE, deadline |-> REQUEST_TIMEOUT,
                        elapsed |-> 0]
            /\ pc' = "request_wait"
            /\ UNCHANGED <<stdout, exitCode, uncaught, outcome>>
       ELSE /\ children' = [children EXCEPT !["request"] = "reaped"]
            /\ Conclude(Raise(TimeoutMessage))
            /\ UNCHANGED calls
    /\ UNCHANGED <<backend, mode, env, steps, stdinRead, buffer, client, output, error,
                   authErr, reply, prereq, validation>>
    /\ UNCHANGED applied
    /\ UNCHANGED setup

KilledChildReaped ==
    /\ pc = "kill_wait"
    /\ children["request"] = "killed"
    /\ children' = [children EXCEPT !["request"] = "reaped"]
    /\ Conclude(Raise(TimeoutMessage))
    /\ UNCHANGED <<backend, mode, env, steps, stdinRead, buffer, client, output, error,
                   authErr, reply, calls,
                   prereq, validation>>
    /\ UNCHANGED applied
    /\ UNCHANGED setup

\* the gh auth status child exits: its stderr decides which remedy is raised
AuthStatusExit ==
    /\ pc = "auth_wait"
    /\ \E statusErr \in AuthStatusErrTexts :
          /\ authErr' = statusErr
          /\ children' = [children EXCEPT !["authstatus"] = "reaped"]
          /\ Conclude(CopilotAfterAuthStatus(statusErr))
    /\ UNCHANGED <<backend, mode, env, steps, stdinRead, buffer, client, output, error,
                   reply, calls,
                   prereq, validation>>
    /\ UNCHANGED applied
    /\ UNCHANGED setup

\* checkpoint 4, OpenAIBackend: one chat-completion call and its post-processing
OpenAIDispatch ==
    /\ pc = "dispatch"
    /\ backend = "openai"
    /\ steps' = Append(steps, "dispatch")
    /\ IF client = None
       THEN \* assert self.client is not None
            /\ Conclude(Raise(<<"OpenAI client not initialized">>))
            /\ UNCHANGED <<reply, calls>>
       ELSE \E r \in ApiReplies :
               /\ reply' = r
               /\ calls' = calls + 1
               /\ Conclude(OpenAIResult(mode, r, env.pygments))
    /\ UNCHANGED <<backend, mode, env, stdinRead, buffer, client, children, output, error,
                   authErr,
                   prereq, validation>>
    /\ UNCHANGED applied
    /\ UNCHANGED setup

Next ==
    \/ CopilotMainWithoutMode
    \/ ValidateMode
    \/ CopilotCheckPrerequisites
    \/ ProbeExit
    \/ OpenAICheckPrerequisites
    \/ ReadStdin
    \/ CopilotDispatch
    \/ DeadlinePasses
    \/ RequestCompleted
    \/ RequestTimeout
    \/ KilledChildReaped
    \/ AuthStatusExit
    \/ OpenAIDispatch

Spec == Init /\ [][Next]_vars

-----------------------------------------------------------------------------
(* validate_input and generate's post-processing called on their own, on a  *)
(* text and again on what they returned                                     *)

ValidateChars == {"a", " ", "\t", "\f", NUL, BEL}

\* short texts, and texts around MAX_INPUT_LENGTH with any character at either end
ValidateTexts ==
    TextsUpTo(ValidateChars, MaxValidateLen)
    \cup {p \o LongText(n) \o q : p \in TextsUpTo(ValidateChars, MaxPadLen),
                                   q \in TextsUpTo(ValidateChars, MaxPadLen),
                                   n \in (MAX_INPUT_LENGTH - 1)..(MAX_INPUT_LENGTH + 1)}

ContentChars == {BACKTICK, "\n", " ", "s", "h"}

\* the openers of a fenced command: <fence>zsh, <fence>sh and the bare <fence>
FenceOpeners ==
    {<<BACKTICK, BACKTICK, BACKTICK, "z", "s", "h">>,
     <<BACKTICK, BACKTICK, BACKTICK, "s", "h">>,
     <<BACKTICK, BACKTICK, BACKTICK>>}

CommandChars == {"s", "h", " ", "-"}

\* single-line commands without a backtick and without whitespace at either end
Commands ==
    {c \in TextsUpTo(CommandChars, MaxCommandLen) :
        c # <<>> /\ ~IsSpace(c[1]) /\ ~IsSpace(c[Len(c)])}
    \cup {<<"l", "s", " ", "-", "l", "a">>, <<"s", "h", " ", "-", "s">>}

\* opener, newline, command, newline, <fence>
FencedCommand(opener, c) == opener \o <<"\n">> \o c \o <<"\n", BACKTICK, BACKTICK, BACKTICK>>

\* a line of six or seven backticks, alone or before a word
LongFences ==
    {[i \in 1..n |-> BACKTICK] \o t : n \in 6..7, t \in {<<>>, <<"s">>}}

\* a line of prose or none, a fenced block of one or two command lines that
\* may be indented, a line of prose or none
ProseAndFenceReplies ==
    {pre \o FencedCommand(opener, body) \o post :
        pre \in {<<>>, <<"s", "\n">>},
        opener \in FenceOpeners,
        body \in {<<"h">>, <<" ", "h">>, <<"h", "\n", " ", "h">>},
        post \in {<<>>, <<"\n", "s">>, <<"\n", " ", "s">>}}

\* the contents a chat-completion reply may hold
ContentTexts ==
    TextsUpTo(ContentChars, MaxContentLen)
    \cup ProseAndFenceReplies
    \cup {FencedCommand(o, c) : o \in FenceOpeners, c \in Commands}
    \cup LongFences
    \cup FencedReplies

\* no run of run() is under way
NotRunning ==
    /\ backend = "none"
    /\ mode = "none"
    /\ env = [gh |-> "absent"]
    /\ pc = "none"
    /\ steps = <<>>
    /\ stdout = <<>>
    /\ exitCode = NoExit
    /\ uncaught = FALSE
    /\ prereq = "unchecked"
    /\ stdinRead = FALSE
    /\ validation = [kind |-> "none", val |-> <<>>]
    /\ buffer = <<>>
    /\ client = None
    /\ children = [c \in ChildCommands |-> "none"]
    /\ wait = NoWait
    /\ output = <<>>
    /\ error = <<>>
    /\ authErr = <<>>
    /\ reply = NoReply
    /\ calls = 0
    /\ outcome = NoOutcome

FnInit ==
    /\ NotRunning
    /\ NotInstalling
    /\ \/ fn = "validate_input" /\ arg \in ValidateTexts
       \/ fn = "post_process" /\ arg \in ContentTexts
    /\ results = <<>>

\* the text the next call is made on
Subject == IF results = <<>> THEN arg ELSE results[Len(results)].val

\* validate_input(text), then validate_input of the text it returned
CallValidateInput ==
    /\ fn = "validate_input"
    /\ Len(results) < MaxApplications
    /\ IF results = <<>> THEN TRUE ELSE results[Len(results)].ok
    /\ results' = Append(results, validate_input(Subject))
    /\ UNCHANGED <<fn, arg>>
    /\ UNCHANGED running
    /\ UNCHANGED setup

\* the post-processing of a content, then of the command it returned
CallPostProcess ==
    /\ fn = "post_process"
    /\ Len(results) < MaxApplications
    /\ results' = Append(results, [ok |-> TRUE, val |-> GeneratePostProcess(Subject)])
    /\ UNCHANGED <<fn, arg>>
    /\ UNCHANGED running
    /\ UNCHANGED setup

FnNext ==
    \/ CallValidateInput
    \/ CallPostProcess

FnSpec == FnInit /\ [][FnNext]_vars

-----------------------------------------------------------------------------
(* installer.py: install() and uninstall() on the shell config file.  The   *)
(* file is held as the list its content splits into at "\n", so a file      *)
(* ending in a newline ends in an empty line and the empty file is <<"">>.  *)

SOURCE_LINE == "source ~/.local/share/zsh-llm-suggestions/zsh-llm-suggestions.zsh"

KEY_BINDINGS ==
    << "bindkey '^o' zsh_llm_suggestions_openai",
       "bindkey '^xo' zsh_llm_suggestions_openai_explain",
       "bindkey '^p' zsh_llm_suggestions_github_copilot",
       "bindkey '^xp' zsh_llm_suggestions_github_copilot_explain" >>

SOURCE_BLOCK == "zsh-llm-suggestions"
KEYBINDINGS_BLOCK == "zsh-llm-suggestions-keybindings"

\* f"# BEGIN {block_name}"
begin_marker(block_name) ==
    IF block_name = SOURCE_BLOCK
    THEN "# BEGIN zsh-llm-suggestions"
    ELSE "# BEGIN zsh-llm-suggestions-keybindings"

\* f"# END {block_name}"
end_marker(block_name) ==
    IF block_name = SOURCE_BLOCK
    THEN "# END zsh-llm-suggestions"
    ELSE "# END zsh-llm-suggestions-keybindings"

\* the comment lines older versions wrote above the source line and the bindings
LEGACY_SOURCE_COMMENT == "# zsh-llm-suggestions"
LEGACY_BINDINGS_COMMENT == "# zsh-llm-suggestions key bindings"

\* a marker line a user indented
INDENTED_END_MARKER == "  # END zsh-llm-suggestions"

\* line.strip()
StripLine(line) == IF line = INDENTED_END_MARKER THEN end_marker(SOURCE_BLOCK) ELSE line

\* needle in line, for the lines and needles of the model
LineContains(line, needle) ==
    \/ line = needle
    \/ needle = begin_marker(SOURCE_BLOCK) /\ line = begin_marker(KEYBINDINGS_BLOCK)
    \/ needle = end_marker(SOURCE_BLOCK) /\ line \in {end_marker(KEYBINDINGS_BLOCK), INDENTED_END_MARKER}

\* needle in config_content, for a needle without a newline
ConfigContains(config_content, needle) ==
    \E i \in 1..Len(config_content) : LineContains(config_content[i], needle)

\* has_block_markers(config_content, block_name)
has_block_markers(config_content, block_name) ==
    /\ ConfigContains(config_content, begin_marker(block_name))
    /\ ConfigContains(config_content, end_marker(block_name))

RECURSIVE RemoveBlockFrom(_, _, _, _)
\* the loop of remove_block from line i on, in_block as the loop carries it
RemoveBlockFrom(lines, block_name, i, in_block) ==
    IF i > Len(lines) THEN <<>>
    ELSE IF StripLine(lines[i]) = begin_marker(block_name)
         THEN RemoveBlockFrom(lines, block_name, i + 1, TRUE)
    ELSE IF StripLine(lines[i]) = end_marker(block_name)
         THEN RemoveBlockFrom(lines, block_name, i + 1, FALSE)
    ELSE (IF in_block THEN <<>> ELSE <<lines[i]>>)
         \o RemoveBlockFrom(lines, block_name, i + 1, in_block)

\* "\n".join(new_lines), split again: no lines at all is the empty file
Joined(new_lines) == IF new_lines = <<>> THEN <<"">> ELSE new_lines

\* remove_block(config_content, block_name)
remove_block(config_content, block_name) ==
    Joined(RemoveBlockFrom(config_content, block_name, 1, FALSE))

RECURSIVE RemoveSourceFrom(_, _, _)
\* uninstall()'s fallback loop for the source line, skip_next as the loop carries it
RemoveSourceFrom(lines, i, skip_next) ==
    IF i > Len(lines) THEN <<>>
    ELSE IF /\ StripLine(lines[i]) = LEGACY_SOURCE_COMMENT
            /\ i + 1 <= Len(lines)
            /\ LineContains(lines[i + 1], SOURCE_LINE)
         THEN RemoveSourceFrom(lines, i + 1, TRUE)
    ELSE IF skip_next THEN RemoveSourceFrom(lines, i + 1, FALSE)
    ELSE (IF LineContains(lines[i], SOURCE_LINE) THEN <<>> ELSE <<lines[i]>>)
         \o RemoveSourceFrom(lines, i + 1, FALSE)

\* uninstall()'s removal of the source line
RemoveSource(config_content) ==
    IF has_block_markers(config_content, SOURCE_BLOCK)
    THEN remove_block(config_content, SOURCE_BLOCK)
    ELSE Joined(RemoveSourceFrom(config_content, 1, FALSE))

RECURSIVE RemoveBindingsFrom(_, _)
\* uninstall()'s fallback loop for the key bindings; its in_binding_block flag
\* is set and cleared but decides about no line
RemoveBindingsFrom(lines, i) ==
    IF i > Len(lines) THEN <<>>
    ELSE IF StripLine(lines[i]) = LEGACY_BINDINGS_COMMENT
         THEN RemoveBindingsFrom(lines, i + 1)
    ELSE IF \E b \in 1..Len(KEY_BINDINGS) : LineContains(lines[i], KEY_BINDINGS[b])
         THEN RemoveBindingsFrom(lines, i + 1)
    ELSE <<lines[i]>> \o RemoveBindingsFrom(lines, i + 1)

\* uninstall()'s removal of the key bindings
RemoveBindings(config_content) ==
    IF has_block_markers(config_content, KEYBINDINGS_BLOCK)
    THEN remove_block(config_content, KEYBINDINGS_BLOCK)
    ELSE Joined(RemoveBindingsFrom(config_content, 1))

RECURSIVE RStripNewlines(_)
\* config_content.rstrip("\n")
RStripNewlines(config_content) ==
    IF Len(config_content) > 1 /\ config_content[Len(config_content)] = ""
    THEN RStripNewlines(SubSeq(config_content, 1, Len(config_content) - 1))
    ELSE config_content

\* config_content.rstrip("\n") + "\n\n" + the marker line, the lines, the marker line
AppendBlock(config_content, block_name, lines) ==
    RStripNewlines(config_content)
        \o <<"", begin_marker(block_name)>> \o lines \o <<end_marker(block_name), "">>

\* install()'s test for a config that sources the script already
SourceConfigured(config_content) ==
    \/ has_block_markers(config_content, SOURCE_BLOCK)
    \/ ConfigContains(config_content, SOURCE_LINE)

\* install()'s test for a config that has the key bindings already
BindingsConfigured(config_content) ==
    \/ has_block_markers(config_content, KEYBINDINGS_BLOCK)
    \/ \A b \in 1..Len(KEY_BINDINGS) : ConfigContains(config_content, KEY_BINDINGS[b])

\* uninstall()'s test for a config that has key bindings to remove
BindingsPresent(config_content) ==
    \/ has_block_markers(config_content, KEYBINDINGS_BLOCK)
    \/ \E b \in 1..Len(KEY_BINDINGS) : ConfigContains(config_content, KEY_BINDINGS[b])

\* response.lower()
LowerResponse(response) ==
    IF response = "Y" THEN "y" ELSE IF response = "Yes" THEN "yes" ELSE response

\* a confirmation that takes the empty answer for a yes
ask_confirmation_DefaultYes(response) ==
    IF response = "" THEN TRUE ELSE LowerResponse(response) \in {"y", "yes"}

\* ask_confirmation(message, default=False) when the user types response
ask_confirmation(response) ==
    IF response = "" THEN FALSE ELSE LowerResponse(response) \in {"y", "yes"}

\* what the user may type at a prompt
Responses == {"", "y", "Y", "Yes", "n", "no", "sure"}

\* the shell config files a first run may find
ShellConfigs ==
    { NoConfigFile,
      <<"">>,
      <<"alias a=b", "">>,
      <<"alias a=b", LEGACY_SOURCE_COMMENT, SOURCE_LINE, "",
        LEGACY_BINDINGS_COMMENT>> \o KEY_BINDINGS \o <<"alias c=d", "">>,
      <<"alias a=b", begin_marker(SOURCE_BLOCK), SOURCE_LINE, INDENTED_END_MARKER,
        "alias c=d", "">>,
      <<begin_marker(SOURCE_BLOCK), SOURCE_LINE, "alias a=b",
        begin_marker(KEYBINDINGS_BLOCK)>> \o KEY_BINDINGS
        \o <<end_marker(KEYBINDINGS_BLOCK), "alias c=d", "">> }

\* a stage that did not prompt
NotAsked(name, readOk, said) ==
    [name |-> name, read |-> readOk, said |-> said, asked |-> FALSE, response |-> "",
     answer |-> FALSE, backup |-> "none", write |-> "none"]

\* a stage that prompted: create_backup and atomic_write_config follow a yes only
Asked(name, readOk, response, backupOk, writeOk) ==
    LET yes == ask_confirmation(response)
    IN [name |-> name, read |-> readOk,
        said |-> IF ~yes THEN "declined" ELSE IF writeOk THEN "updated" ELSE "update_error",
        asked |-> TRUE, response |-> response, answer |-> yes,
        backup |-> IF ~yes THEN "none" ELSE IF backupOk THEN "created" ELSE "failed",
        write |-> IF ~yes THEN "none" ELSE IF writeOk THEN "replaced" ELSE "failed"]

\* the run's record after a stage
SessionAfter(s) ==
    [session EXCEPT !.prompts = @ + (IF s.asked THEN 1 ELSE 0),
                    !.yeses = @ + (IF s.answer THEN 1 ELSE 0),
                    !.failed = @ \/ ~s.read \/ s.backup = "failed" \/ s.write = "failed"]

\* the prompt, the backup and the write every stage ends with: newContent
\* replaces the file when the user says yes and the write succeeds
ConfirmAndWrite(name, readOk, response, backupOk, writeOk, newContent) ==
    LET s == Asked(name, readOk, response, backupOk, writeOk)
    IN /\ stage' = s
       /\ session' = SessionAfter(s)
       /\ lastBackup' = IF s.backup = "created" THEN config ELSE lastBackup
       /\ config' = IF s.write = "replaced" THEN newContent ELSE config

\* a stage that leaves the file alone without asking
LeaveAlone(name, readOk, said) ==
    /\ stage' = NotAsked(name, readOk, said)
    /\ session' = SessionAfter(NotAsked(name, readOk, said))
    /\ UNCHANGED <<config, lastBackup>>

InstallerInit ==
    /\ NotRunning
    /\ fn = "none"
    /\ arg = <<>>
    /\ results = <<>>
    /\ installed \in {"none", "script"}
    /\ config \in ShellConfigs
    /\ origin = config
    /\ ipc = "idle"
    /\ stage = NoStage
    /\ session = NoSession
    /\ lastBackup = NoConfigFile

\* install() up to the shell config: the directory, the packaged script
InstallScript ==
    /\ ipc = "idle"
    /\ \E scriptOk \in BOOLEAN :
        /\ installed' = IF scriptOk THEN "script"
                        ELSE IF installed = "none" THEN "dir" ELSE installed
        /\ session' = [command |-> "install", prompts |-> 0, yeses |-> 0,
                       failed |-> ~scriptOk, aborted |-> ~scriptOk]
        /\ ipc' = IF scriptOk /\ config # NoConfigFile THEN "install_source" ELSE "idle"
    /\ stage' = NoStage
    /\ UNCHANGED <<config, origin, lastBackup>>
    /\ UNCHANGED <<running, applied>>

\* install(): the source line
InstallSourceLine ==
    /\ ipc = "install_source"
    /\ \E readOk \in BOOLEAN, response \in Responses, backupOk \in BOOLEAN, writeOk \in BOOLEAN :
        IF ~readOk
        THEN LeaveAlone("install_source", FALSE, "read_error")
        ELSE IF SourceConfigured(config)
        THEN LeaveAlone("install_source", TRUE, "already_configured")
        ELSE ConfirmAndWrite("install_source", TRUE, response, backupOk, writeOk,
                             AppendBlock(config, SOURCE_BLOCK, <<SOURCE_LINE>>))
    /\ ipc' = IF stage'.said \in {"already_configured", "updated"}
              THEN "install_keys" ELSE "idle"
    /\ UNCHANGED <<installed, origin>>
    /\ UNCHANGED <<running, applied>>

\* install(): the key bindings, reached when source_added
InstallKeyBindings ==
    /\ ipc = "install_keys"
    /\ \E readOk \in BOOLEAN, response \in Responses, backupOk \in BOOLEAN, writeOk \in BOOLEAN :
        LET config_content == IF readOk THEN config ELSE <<"">>
        IN IF BindingsConfigured(config_content)
           THEN LeaveAlone("install_keys", readOk, "already_configured")
           ELSE ConfirmAndWrite("install_keys", readOk, response, backupOk, writeOk,
                                AppendBlock(config_content, KEYBINDINGS_BLOCK, KEY_BINDINGS))
    /\ ipc' = "idle"
    /\ UNCHANGED <<installed, origin>>
    /\ UNCHANGED <<running, applied>>

\* uninstall() up to the shell config: the script, the directory
UninstallScript ==
    /\ ipc = "idle"
    /\ IF installed = "none"
       THEN /\ session' = [command |-> "uninstall", prompts |-> 0, yeses |-> 0,
                           failed |-> FALSE, aborted |-> TRUE]
            /\ ipc' = "idle"
            /\ UNCHANGED installed
       ELSE /\ session' = [command |-> "uninstall", prompts |-> 0, yeses |-> 0,
                           failed |-> FALSE, aborted |-> FALSE]
            /\ \E dirEmpty \in BOOLEAN : installed' = IF dirEmpty THEN "none" ELSE "dir"
            /\ ipc' = IF config # NoConfigFile THEN "uninstall_source" ELSE "idle"
    /\ stage' = NoStage
    /\ UNCHANGED <<config, origin, lastBackup>>
    /\ UNCHANGED <<running, applied>>

\* uninstall(): the source line
UninstallSourceLine ==
    /\ ipc = "uninstall_source"
    /\ \E readOk \in BOOLEAN, response \in Responses, backupOk \in BOOLEAN, writeOk \in BOOLEAN :
        LET config_content == IF readOk THEN config ELSE <<"">>
        IN IF SourceConfigured(config_content)
           THEN ConfirmAndWrite("uninstall_source", readOk, response, backupOk, writeOk,
                                RemoveSource(config_content))
           ELSE LeaveAlone("uninstall_source", readOk, "not_configured")
    /\ ipc' = "uninstall_keys"
    /\ UNCHANGED <<installed, origin>>
    /\ UNCHANGED <<running, applied>>

\* uninstall(): the key bindings
UninstallKeyBindings ==
    /\ ipc = "uninstall_keys"
    /\ \E readOk \in BOOLEAN, response \in Responses, backupOk \in BOOLEAN, writeOk \in BOOLEAN :
        LET config_content == IF readOk THEN config ELSE <<"">>
        IN IF BindingsPresent(config_content)
           THEN ConfirmAndWrite("uninstall_keys", readOk, response, backupOk, writeOk,
                                RemoveBindings(config_content))
           ELSE LeaveAlone("uninstall_keys", readOk, "not_configured")
    /\ ipc' = "idle"
    /\ UNCHANGED <<installed, origin>>
    /\ UNCHANGED <<running, applied>>

InstallerNext ==
    \/ InstallScript
    \/ InstallSourceLine
    \/ InstallKeyBindings
    \/ UninstallScript
    \/ UninstallSourceLine
    \/ UninstallKeyBindings

InstallerSpec == InstallerInit /\ [][InstallerNext]_vars

-----------------------------------------------------------------------------
(* Properties of LLMBackend.run *)

Checkpoints == <<"mode", "prereq", "stdin", "validate", "dispatch">>

Passed(step) == \E i \in 1..Len(steps) : steps[i] = step

\* C1: once the prerequisites passed, a failure is reported by exactly one print
\* followed by exit code 1: a validation failure prints
\* echo "ERROR: Invalid input: <m>" with the validator's message <m>, and an
\* exception raised by generate or explain prints
\* echo "ERROR: Request failed: <m>" with the exception's message <m>.
C1_FailureIsOneErrorLine ==
    /\ validation.kind = "invalid" =>
          /\ validation.val[1] \in {"Input contains null bytes", "Input too long (max "}
          /\ stdout = << <<"echo \"ERROR: Invalid input: ">> \o validation.val \o <<"\"">> >>
          /\ pc = "exited"
          /\ exitCode = 1
    /\ outcome.kind = "raise" =>
          /\ prereq = "ok"
          /\ stdout = << <<"echo \"ERROR: Request failed: ">> \o outcome.val \o <<"\"">> >>
          /\ pc = "exited"
          /\ exitCode = 1

\* C1 witness: a request that timed out was reported as a Request failed line
C1_Witness ==
    /\ outcome = [kind |-> "raise", val |-> <<"Request timed out after ", "30", " seconds">>]
    /\ exitCode = 1
    /\ Len(stdout) = 1

\* C2: no exception leaves run(): whatever goes wrong, the run ends by printing a
\* user-facing line and exiting with code 1, never with an uncaught exception.
C2_NoExceptionEscapes ==
    pc = "exited" /\ exitCode # 0 =>
        /\ ~uncaught
        /\ Len(stdout) = 1
        /\ exitCode = 1

\* C3: a run ends with exit code 0 exactly when generate or explain returned a
\* string, which is then the only thing printed, once; every other run ends
\* with exit code 1.
C3_ExitCodeZeroIffReturned ==
    /\ pc # "exited" => exitCode = NoExit
    /\ pc = "exited" =>
          /\ exitCode \in {0, 1}
          /\ exitCode = 0 <=> outcome.kind = "return"
          /\ exitCode = 0 => stdout = <<outcome.val>>
          /\ (prereq = "failed" \/ validation.kind = "invalid" \/ outcome.kind = "raise")
                => exitCode = 1

\* C3 witness: a run that printed the returned string and exited with code 0
C3_Witness ==
    /\ pc = "exited"
    /\ exitCode = 0
    /\ outcome.kind = "return"
    /\ outcome.val # <<>>
    /\ stdout = <<outcome.val>>

\* C4: run() passes its checkpoints in the order mode, prerequisites, stdin read,
\* validation, dispatch; stdin is never read when the mode is invalid or a
\* prerequisite is missing, and generate/explain run only after all three
\* succeeded, the hosted backend's client being initialised.
C4_CheckpointOrder ==
    /\ steps = SubSeq(Checkpoints, 1, Len(steps))
    /\ stdinRead =>
          /\ mode \in {"generate", "explain"}
          /\ prereq = "ok"
          /\ backend = "copilot" => env.gh = "present" /\ children["version"] = "reaped"
          /\ backend = "openai" => env.lib /\ env.key # None
    /\ (Passed("dispatch") \/ calls > 0 \/ outcome.kind # "none") =>
          /\ mode \in {"generate", "explain"}
          /\ prereq = "ok"
          /\ stdinRead
          /\ validation.kind = "valid"
          /\ buffer = validation.val
          /\ backend = "openai" => client # None

\* C4 witness: the hosted backend's request was issued after all checkpoints
C4_Witness ==
    /\ backend = "openai"
    /\ calls = 1
    /\ steps = <<"mode", "prereq", "stdin", "validate", "dispatch">>
    /\ client # None

-----------------------------------------------------------------------------
(* Properties of CopilotBackend *)

HasOAuthMarker(err) == \E i \in 1..Len(err) : err[i] = "Error: No valid OAuth token detected"
HasUnknownCommandMarker(err) ==
    \E i \in 1..Len(err) : err[i] = "unknown command \"copilot\" for \"gh\""
HasNoSuggestionMarker(out) ==
    \E i \in 1..Len(out) :
        out[i] = "Suggestion not readily available. Please revise for better results."
HasNotLoggedInMarker(err) ==
    \E i \in 1..Len(err) : err[i] = "You are not logged into any GitHub hosts"

AuthenticationRemedy ==
    <<"zsh-llm-suggestions missing prerequisites:", " Authenticate with github first: ",
      "gh auth login", " --web -h github.com">>
ExtensionRemedy ==
    <<"zsh-llm-suggestions missing prerequisites:",
      " Install github copilot extension first: ", "gh extension install github/gh-copilot">>
TimedOut == [kind |-> "raise", val |-> <<"Request timed out after ", "30", " seconds">>]

\* the request child ran into the deadline
TimeoutStep ==
    /\ pc = "request_wait"
    /\ wait.elapsed = REQUEST_TIMEOUT
    /\ children["request"] = "running"

\* C5: a request child that has not finished after 30 seconds is killed, then
\* reaped, and only then is 'Request timed out after 30 seconds' raised: the
\* error never surfaces while the child runs or is unreaped, and the request
\* returns no result.
C5_TimeoutKillsThenReaps ==
    /\ [](outcome = TimedOut =>
            /\ children["request"] = "reaped"
            /\ output = <<>> /\ error = <<>>
            /\ stdout = << <<"echo \"ERROR: Request failed: ">> \o TimedOut.val \o <<"\"">> >>
            /\ exitCode = 1)
    /\ [](children["request"] \in {"running", "killed"} =>
            outcome.kind = "none" /\ stdout = <<>> /\ exitCode = NoExit)
    /\ [][TimeoutStep =>
            children'["request"] = "killed" /\ pc' = "kill_wait" /\ outcome'.kind = "none"]_vars
    /\ [][children["request"] = "killed" =>
            children'["request"] = "reaped" /\ outcome' = TimedOut]_vars

\* C5 witness: the timeout was reported with the child killed and reaped
C5_Witness ==
    /\ outcome = TimedOut
    /\ children["request"] = "reaped"
    /\ pc = "exited"

\* C6: every child the CLI backend waits for is bounded by the hard timeout, so
\* a child that never exits cannot block the run.
C6_EveryWaitIsBounded ==
    (wait.on # "none" /\ children[wait.on] = "running") => wait.bounded

\* C7: with the OAuth marker in stderr, generate and explain fail with the
\* authentication remedy naming 'gh auth login', whatever stdout holds.
C7_OAuthMarkerMeansAuthRemedy ==
    HasOAuthMarker(error) =>
        /\ outcome = [kind |-> "raise", val |-> AuthenticationRemedy]
        /\ \E i \in 1..Len(outcome.val) : outcome.val[i] = "gh auth login"
        /\ children["authstatus"] = "none"
        /\ exitCode = 1

\* C7 witness: explain failed with the remedy although stdout held the
\* no-suggestion marker
C7_Witness ==
    /\ mode = "explain"
    /\ HasOAuthMarker(error)
    /\ HasNoSuggestionMarker(output)
    /\ outcome = [kind |-> "raise", val |-> AuthenticationRemedy]

\* C8: a finished request is classified in the order OAuth marker,
\* unknown-command marker, no-suggestion marker, extraction; with the
\* unknown-command marker and no OAuth marker, gh auth status is queried and
\* the request fails with the authentication remedy when its stderr reports
\* no login, with the install-extension remedy otherwise, never with a result.
C8_UnknownCommandRequeriesAuth ==
    /\ (HasUnknownCommandMarker(error) /\ ~HasOAuthMarker(error)) =>
          /\ children["authstatus"] # "none"
          /\ outcome.kind # "return"
          /\ exitCode # 0
          /\ pc = "exited" =>
                /\ outcome.kind = "raise"
                /\ HasNotLoggedInMarker(authErr) => outcome.val = AuthenticationRemedy
                /\ ~HasNotLoggedInMarker(authErr) => outcome.val = ExtensionRemedy
    /\ (HasOAuthMarker(error) /\ HasUnknownCommandMarker(error)) =>
          children["authstatus"] = "none" /\ outcome.val = AuthenticationRemedy
    /\ (HasNoSuggestionMarker(output) /\ pc = "exited"
            /\ ~HasOAuthMarker(error) /\ ~HasUnknownCommandMarker(error)) =>
          outcome = [kind |-> "return", val |-> <<"No answer from GitHub CoPilot.">>]
    /\ ~HasUnknownCommandMarker(error) => children["authstatus"] = "none"

\* C8 witness: the re-query reported no login and the authentication remedy
\* was raised
C8_Witness ==
    /\ HasUnknownCommandMarker(error)
    /\ ~HasOAuthMarker(error)
    /\ HasNotLoggedInMarker(authErr)
    /\ outcome = [kind |-> "raise", val |-> AuthenticationRemedy]

\* C9 as stated: whenever stdout holds the no-suggestion marker, generate
\* returns 'No answer from GitHub CoPilot.' and does not raise.
C9_NoSuggestionAlwaysFallback ==
    (backend = "copilot" /\ mode = "generate" /\ pc = "exited" /\ HasNoSuggestionMarker(output))
        => outcome = [kind |-> "return", val |-> <<"No answer from GitHub CoPilot.">>]

\* C9 amended: whenever stdout holds the no-suggestion marker and stderr holds
\* neither the OAuth marker nor the unknown-command marker, generate returns
\* 'No answer from GitHub CoPilot.' and does not raise.
C9_NoSuggestionFallbackUnlessStderrMarker ==
    (backend = "copilot" /\ mode = "generate" /\ HasNoSuggestionMarker(output)
        /\ ~HasOAuthMarker(error) /\ ~HasUnknownCommandMarker(error))
        => /\ outcome = [kind |-> "return", val |-> <<"No answer from GitHub CoPilot.">>]
           /\ stdout = << <<"No answer from GitHub CoPilot.">> >>
           /\ exitCode = 0

\* C9 witness: the fallback was returned with other text on stdout and stderr
C9_Witness ==
    /\ mode = "generate"
    /\ HasNoSuggestionMarker(output)
    /\ Len(output) > 1
    /\ error = <<"e">>
    /\ outcome = [kind |-> "return", val |-> <<"No answer from GitHub CoPilot.">>]

\* the answer the CLI backend extracts from stdout in mode m
Extracted(m, out) == IF m = "generate" THEN ExtractSuggestion(out) ELSE ExtractExplanation(out)

\* the request finished and none of the three markers was present
ReachedExtraction ==
    /\ backend = "copilot"
    /\ pc = "exited"
    /\ outcome.kind # "none"
    /\ outcome # TimedOut
    /\ ~HasOAuthMarker(error)
    /\ ~HasUnknownCommandMarker(error)
    /\ ~HasNoSuggestionMarker(output)

C11_RaisesStderrIffAnswerEmpty ==
    ReachedExtraction =>
        /\ outcome.kind = "raise" <=> (Extracted(mode, output) = <<>> /\ error # <<>>)
        /\ outcome.kind = "raise" => outcome.val = error
        /\ Extracted(mode, output) # <<>> =>
              outcome = [kind |-> "return", val |-> Extracted(mode, output)]

\* C11 witness: an explanation was extracted and returned although stderr had text
C11_Witness ==
    /\ backend = "copilot"
    /\ mode = "explain"
    /\ pc = "exited"
    /\ output = <<"Explanation<ESC>[0m<ESC>[1m:", "c">>
    /\ error = <<"e", "e">>
    /\ outcome = [kind |-> "return", val |-> <<"c">>]
    /\ exitCode = 0

-----------------------------------------------------------------------------
(* Properties of validate_input *)

\* C12: for every input text that contains a NUL character, whatever its
\* length and other content, validate_input fails with an error whose message
\* mentions 'null bytes'.
C12_NulIsRejected ==
    (fn = "validate_input" /\ results # <<>> /\ (\E i \in 1..Len(arg) : arg[i] = NUL))
        => results[1] = [ok |-> FALSE, val |-> <<"Input contains null bytes">>]

\* C12 witness: a text longer than the maximum with a NUL at its end was
\* rejected for its null bytes
C12_Witness ==
    /\ fn = "validate_input"
    /\ Len(arg) > 2000
    /\ arg[Len(arg)] = NUL
    /\ results = <<[ok |-> FALSE, val |-> <<"Input contains null bytes">>]>>

\* C13 as stated: every input text longer than 2000 characters fails with an
\* error whose message mentions 'too long', and an input of exactly 2000
\* characters passes.
C13_LongerThanMaxIsTooLong ==
    (fn = "validate_input" /\ results # <<>>) =>
        /\ Len(arg) > 2000 =>
              (~results[1].ok /\ results[1].val[1] = "Input too long (max ")
        /\ Len(arg) = 2000 => results[1].ok

\* C13 amended: every input text longer than 2000 characters that holds no NUL
\* fails with an error whose message mentions 'too long' and states the
\* length of the original text, before any character is filtered out or
\* trimmed; an input of exactly 2000 characters that holds no NUL passes.
C13_LongerThanMaxWithoutNulIsTooLong ==
    (fn = "validate_input" /\ results # <<>> /\ ~(\E i \in 1..Len(arg) : arg[i] = NUL)) =>
        /\ Len(arg) > 2000 =>
              results[1] = [ok |-> FALSE,
                            val |-> <<"Input too long (max ", "2000", " characters, got ",
                                      ToString(Len(arg)), ")">>]
        /\ Len(arg) = 2000 => results[1].ok

\* C13 witness: a text of 2001 characters of which the filter would drop the
\* first was rejected as too long
C13_Witness ==
    /\ fn = "validate_input"
    /\ Len(arg) = 2001
    /\ arg[1] = BEL
    /\ results = <<[ok |-> FALSE,
                    val |-> <<"Input too long (max ", "2000", " characters, got ", "2001", ")">>]>>

\* C14: validate_input is idempotent on accepted inputs: whenever
\* validate_input(x) succeeds, validate_input of its result succeeds and
\* returns that same result.
C14_ValidateIsIdempotent ==
    (fn = "validate_input" /\ Len(results) >= 2) =>
        (results[1].ok /\ results[2].ok /\ results[2].val = results[1].val)

\* C14 witness: a text the first call filtered and trimmed was validated twice
C14_Witness ==
    /\ fn = "validate_input"
    /\ arg = <<"\t", "a", BEL>>
    /\ Len(results) = 2
    /\ results[1] = [ok |-> TRUE, val |-> <<"a">>]
    /\ results[2] = [ok |-> TRUE, val |-> <<"a">>]

\* C15: whenever run() invokes generate or explain, the text it passes has at
\* most 2000 characters, holds no NUL and no non-printable character other
\* than newline, carriage return and tab, and has no leading or trailing
\* whitespace.
C15_DispatchedTextIsSanitized ==
    (pc = "dispatch" \/ Passed("dispatch")) =>
        /\ Len(buffer) <= 2000
        /\ \A i \in 1..Len(buffer) : buffer[i] \notin {NUL, BEL, "\f"}
        /\ buffer # <<>> =>
              /\ buffer[1] \notin {" ", "\t", "\n", "\r", "\f"}
              /\ buffer[Len(buffer)] \notin {" ", "\t", "\n", "\r", "\f"}

\* C15 witness: a request was issued with a validated text of the maximal length
C15_Witness ==
    /\ Passed("dispatch")
    /\ validation.kind = "valid"
    /\ Len(buffer) = 2000
    /\ calls = 1

-----------------------------------------------------------------------------
(* Properties of generate's post-processing *)

\* C16: for every single-line command c that holds no backtick and no leading
\* or trailing whitespace, and for each of the openers <fence>zsh, <fence>sh
\* and the bare <fence>, the post-processing of the reply made of the opener,
\* a newline, c, a newline and <fence> yields exactly c.
C16_FencedCommandIsUnwrapped ==
    \A opener \in {<<BACKTICK, BACKTICK, BACKTICK, "z", "s", "h">>,
                    <<BACKTICK, BACKTICK, BACKTICK, "s", "h">>,
                    <<BACKTICK, BACKTICK, BACKTICK>>} :
        \A c \in Commands :
            (fn = "post_process" /\ results # <<>>
                /\ arg = opener \o <<"\n">> \o c \o <<"\n", BACKTICK, BACKTICK, BACKTICK>>)
            => results[1].val = c

\* C16 witness: the command sh -s behind the bare opener came out as it was
C16_Witness ==
    /\ fn = "post_process"
    /\ arg = <<BACKTICK, BACKTICK, BACKTICK, "\n", "s", "h", " ", "-", "s", "\n",
               BACKTICK, BACKTICK, BACKTICK>>
    /\ results # <<>>
    /\ results[1].val = <<"s", "h", " ", "-", "s">>

\* a run of backticks starts at position i of the text
RunStartsAt(text, i) == text[i] = BACKTICK /\ (i = 1 \/ text[i - 1] # BACKTICK)

\* the length of the run of backticks that starts at position i
RunLength(text, i) ==
    Min({j \in i..(Len(text) + 1) : j = Len(text) + 1 \/ text[j] # BACKTICK}) - i

\* every run of three or more backticks starts a line and has at most five
FencesStartLines(text) ==
    \A i \in 1..Len(text) :
        (RunStartsAt(text, i) /\ RunLength(text, i) >= 3)
            => ((i = 1 \/ text[i - 1] = "\n") /\ RunLength(text, i) <= 5)

\* three backticks in a row somewhere in the text
HasTripleBacktick(text) ==
    \E i \in 1..Len(text) :
        i + 2 <= Len(text) /\ text[i] = BACKTICK /\ text[i + 1] = BACKTICK /\ text[i + 2] = BACKTICK

\* C17 as stated: the post-processing yields a result for every reply, a text
\* no longer than the reply, and applying it to its own result changes
\* nothing: post(post(r)) = post(r).
C17_PostProcessIsIdempotent ==
    /\ (fn = "post_process" /\ results # <<>>) => Len(results[1].val) \in 0..Len(arg)
    /\ (fn = "post_process" /\ Len(results) >= 2) => results[2].val = results[1].val

\* C17 amended: the post-processing yields a result for every reply, a text
\* no longer than the reply, and for every reply in which each run of three
\* or more backticks starts a line and has at most five backticks, applying
\* it to its own result changes nothing.
C17_PostProcessIsIdempotentOnLineFences ==
    /\ (fn = "post_process" /\ results # <<>>) => Len(results[1].val) \in 0..Len(arg)
    /\ (fn = "post_process" /\ Len(results) >= 2 /\ FencesStartLines(arg))
          => results[2].val = results[1].val

\* C17 witness: a fenced command was post-processed twice with the same result
C17_Witness ==
    /\ fn = "post_process"
    /\ arg = <<BACKTICK, BACKTICK, BACKTICK, "s", "h", "\n", "c", "\n",
               BACKTICK, BACKTICK, BACKTICK>>
    /\ Len(results) = 2
    /\ results[1].val = <<"c">>
    /\ results[2].val = <<"c">>

\* C18 as stated: for every reply content, the command generate returns holds
\* no triple-backtick sequence.
C18_NoTripleBacktickReturned ==
    (fn = "post_process" /\ results # <<>>) => ~HasTripleBacktick(results[1].val)

\* C18 amended: for every reply content in which each run of three or more
\* backticks starts a line and has at most five backticks, the command
\* generate returns holds no triple-backtick sequence.
C18_NoTripleBacktickFromLineFences ==
    (fn = "post_process" /\ results # <<>> /\ FencesStartLines(arg))
        => ~HasTripleBacktick(results[1].val)

\* C18 witness: a reply of a line of prose and a fenced command came out
\* without its fences
C18_Witness ==
    /\ fn = "post_process"
    /\ arg = <<"c", "\n", BACKTICK, BACKTICK, BACKTICK, "z", "s", "h", "\n", "c", " ", "c", "\n",
               BACKTICK, BACKTICK, BACKTICK>>
    /\ results # <<>>
    /\ results[1].val = <<"c", "\n", "c", " ", "c">>

-----------------------------------------------------------------------------
(* Properties of the mode argument and of the lines printed on failure *)

\* C19: for every mode argument other than generate and explain, the run
\* prints a message that holds 'unknown mode' followed by the bad mode and
\* exits with code 1, without checking prerequisites, reading stdin or
\* contacting a backend.
C19_UnknownModeExitsAtOnce ==
    mode \notin {"generate", "explain", NoArgv} =>
        /\ pc \in {"start", "exited"}
        /\ prereq = "unchecked"
        /\ ~stdinRead
        /\ calls = 0
        /\ client = None
        /\ \A c \in DOMAIN children : children[c] = "none"
        /\ pc = "exited" =>
              /\ Len(stdout) = 1
              /\ Len(stdout[1]) = 4
              /\ stdout[1][2] = "unknown mode"
              /\ stdout[1][3] = ": "
              /\ stdout[1][4] = mode
              /\ exitCode = 1
              /\ ~uncaught

\* C19 witness: the mode Explain, which differs from explain by its capital,
\* was refused
C19_Witness ==
    /\ mode = "Explain"
    /\ pc = "exited"
    /\ exitCode = 1
    /\ stdout = << <<"ERROR: something went wrong in zsh-llm-suggestions, please report a bug. Got ",
                     "unknown mode", ": ", "Explain">> >>

\* a line of the form echo "...", optionally followed by && and a command
IsEchoLine(line) ==
    /\ Len(line) >= 2
    /\ line[1] \in {"echo \"", "echo \"ERROR: Invalid input: ", "echo \"ERROR: Request failed: "}
    /\ \/ line[Len(line)] = "\""
       \/ \E k \in 2..(Len(line) - 2) : line[k] = "\"" /\ line[k + 1] = " && "

\* C20: every error or remediation line an entry point prints before it exits
\* with code 1 (missing or unknown mode, failed prerequisite, invalid input,
\* failed request) is a shell-executable line of the form echo "...",
\* optionally followed by && and a command.
C20_EveryErrorLineIsEcho ==
    (pc = "exited" /\ exitCode = 1 /\ ~uncaught) =>
        \A i \in 1..Len(stdout) : IsEchoLine(stdout[i])

-----------------------------------------------------------------------------
(* Properties of the hosted backend's prerequisites, of retries and of the   *)
(* highlighter                                                               *)

\* C21: when the client library is importable and OPENAI_API_KEY is unset, the
\* hosted backend's check_prerequisites fails with a remedy line that holds
\* the name OPENAI_API_KEY and an export instruction, and constructs no
\* client; when the library is not importable the install remedy is returned
\* instead, whether or not the key is set.
C21_MissingKeyOrLibraryRemedy ==
    (backend = "openai" /\ Passed("prereq")) =>
        /\ (env.lib /\ env.key = "None") =>
              /\ prereq = "failed"
              /\ client = "None"
              /\ Len(stdout) = 1
              /\ stdout[1][1] = "echo \""
              /\ \E i \in 1..Len(stdout[1]) : stdout[1][i] = "OPENAI_API_KEY"
              /\ \E i \in 1..(Len(stdout[1]) - 1) :
                    stdout[1][i] = "export " /\ stdout[1][i + 1] = "OPENAI_API_KEY"
              /\ exitCode = 1
        /\ ~env.lib =>
              /\ prereq = "failed"
              /\ client = "None"
              /\ stdout = << <<"echo \"", "zsh-llm-suggestions missing prerequisites:",
                               " Install OpenAI Python API.", "\"", " && ",
                               "pip3 install openai">> >>
              /\ exitCode = 1

\* C21 witness: the key was set and the library missing, and the install
\* remedy was printed
C21_Witness ==
    /\ backend = "openai"
    /\ ~env.lib
    /\ env.key = "sk-1"
    /\ pc = "exited"
    /\ prereq = "failed"
    /\ Len(stdout) = 1
    /\ stdout[1][6] = "pip3 install openai"

\* C22: nothing is retried: a run issues at most one backend request (one
\* chat-completion call, or one gh copilot suggest/explain child), and a
\* request that failed or timed out is never issued again: a request is
\* issued only while none was issued, no reply or outcome exists and the
\* request child was never started.
C22_NothingIsRetried ==
    [][/\ calls' \in {calls, calls + 1}
       /\ calls' <= 1
       /\ calls' = calls + 1 =>
             (outcome.kind = "none" /\ reply.kind = "none" /\ children["request"] = "none")
       /\ (children'["request"] = "running" /\ children["request"] # "running") =>
             (children["request"] = "none" /\ calls = 0)
       /\ reply' # reply => reply.kind = "none"]_vars

\* C22 witness: the single chat-completion call failed and the run exited
\* with code 1
C22_Witness ==
    /\ backend = "openai"
    /\ reply.kind = "error"
    /\ calls = 1
    /\ outcome.kind = "raise"
    /\ pc = "exited"
    /\ exitCode = 1

\* C23: highlight_explanation never raises and never changes whether an
\* explain run succeeds: it returns the explanation unchanged when
\* highlighting is disabled or the highlighter is unavailable, and for a
\* reply that holds a content the explain run returns and exits with code 0
\* with the highlighter working, failing, absent or disabled.
C23_HighlighterNeverFailsRun ==
    (backend = "openai" /\ mode = "explain" /\ pc = "exited" /\ reply.kind = "content") =>
        /\ outcome.kind = "return"
        /\ exitCode = 0
        /\ env.pygments \in {"disabled", "absent"} => outcome.val = Strip(reply.val)

-----------------------------------------------------------------------------
(* Properties of the extraction of a suggestion *)

\* the position of the first "# Suggestion:" of the text, 0 without one
FirstSuggestionNeedle(text) ==
    IF \E i \in 1..Len(text) : text[i] = "# Suggestion:"
    THEN CHOOSE i \in 1..Len(text) :
            text[i] = "# Suggestion:" /\ \A k \in 1..(i - 1) : text[k] # "# Suggestion:"
    ELSE 0

\* the position of the first prompt redraw after position i, the end of the
\* text without one
FirstRedrawAfter(text, i) ==
    IF \E j \in (i + 1)..Len(text) : text[j] = "<LF><LF><ESC>7<ESC>[?"
    THEN CHOOSE j \in (i + 1)..Len(text) :
            text[j] = "<LF><LF><ESC>7<ESC>[?"
            /\ \A k \in (i + 1)..(j - 1) : text[k] # "<LF><LF><ESC>7<ESC>[?"
    ELSE Len(text) + 1

\* the text between the first needle and the first redraw after it, trimmed
BetweenNeedleAndRedraw(text) ==
    LET i == FirstSuggestionNeedle(text)
    IN Strip(SubSeq(text, i + 1, FirstRedrawAfter(text, i) - 1))

\* generate ran to its extraction on a stdout that holds the needle
ExtractedAfterNeedle ==
    /\ ReachedExtraction
    /\ mode = "generate"
    /\ FirstSuggestionNeedle(output) # 0

\* C24 as stated: when none of the markers is present and stdout holds
\* '# Suggestion:', generate returns exactly the text after the first
\* '# Suggestion:' and before the first following prompt redraw, trimmed.
C24_ReturnsTextBetweenNeedleAndRedraw ==
    ExtractedAfterNeedle =>
        outcome = [kind |-> "return", val |-> BetweenNeedleAndRedraw(output)]

\* C24 amended: when none of the markers is present, stdout holds
\* '# Suggestion:' and the trimmed text between the first '# Suggestion:' and
\* the first following prompt redraw is non-empty or stderr is empty,
\* generate returns exactly that text.
C24_ReturnsTextBetweenUnlessEmptyWithStderr ==
    (ExtractedAfterNeedle /\ (BetweenNeedleAndRedraw(output) # <<>> \/ error = <<>>)) =>
        outcome = [kind |-> "return", val |-> BetweenNeedleAndRedraw(output)]

\* C24 witness: of a banner, the needle, a suggestion, two prompt redraws and
\* text after each, the suggestion alone was returned
C24_Witness ==
    /\ backend = "copilot"
    /\ mode = "generate"
    /\ output = <<"b", "# Suggestion:", "c", "<LF><LF><ESC>7<ESC>[?", "a",
                  "<LF><LF><ESC>7<ESC>[?", "a">>
    /\ outcome = [kind |-> "return", val |-> <<"c">>]
    /\ exitCode = 0

-----------------------------------------------------------------------------
(* Properties of fence stripping on prose and a fenced block *)

\* the end of the line that starts at position i: the position of its newline
LineEnd(text, i) == Min({j \in i..(Len(text) + 1) : j = Len(text) + 1 \/ text[j] = "\n"})

\* the lines of the text from position i on
RECURSIVE LinesFrom(_, _)
LinesFrom(text, i) ==
    IF i > Len(text) + 1 THEN <<>>
    ELSE <<SubSeq(text, i, LineEnd(text, i) - 1)>> \o LinesFrom(text, LineEnd(text, i) + 1)

\* the lines joined by newlines
RECURSIVE JoinLines(_)
JoinLines(lines) ==
    IF lines = <<>> THEN <<>>
    ELSE IF Len(lines) = 1 THEN lines[1]
    ELSE lines[1] \o <<"\n">> \o JoinLines(Tail(lines))

\* a line made of <fence>, an optional zsh or sh and whitespace
IsFenceLine(line) ==
    /\ Len(line) >= 3
    /\ line[1] = BACKTICK /\ line[2] = BACKTICK /\ line[3] = BACKTICK
    /\ Strip(SubSeq(line, 4, Len(line))) \in {<<>>, <<"z", "s", "h">>, <<"s", "h">>}

IsNotFenceLine(line) == ~IsFenceLine(line)

\* a reply of lines without backticks and exactly two fence lines
IsProseAndOneFence(text) ==
    LET lines == LinesFrom(text, 1)
        fences == {k \in 1..Len(lines) : IsFenceLine(lines[k])}
    IN /\ Cardinality(fences) = 2
       /\ \A k \in (1..Len(lines)) \ fences :
             lines[k] # <<>> /\ \A i \in 1..Len(lines[k]) : lines[k][i] # BACKTICK

\* C25: fence stripping removes only the fence lines: for a reply made of
\* prose lines and one fenced block, the result is, up to the final trim, the
\* reply's non-fence lines in their original order, each unchanged, its
\* leading whitespace included.
C25_OnlyFenceLinesRemoved ==
    (fn = "post_process" /\ results # <<>> /\ IsProseAndOneFence(arg)) =>
        results[1].val = Strip(JoinLines(SelectSeq(LinesFrom(arg, 1), IsNotFenceLine)))

-----------------------------------------------------------------------------
(* Properties of the printed error lines *)

\* an echo "ERROR: ..." line
IsErrorEchoLine(line) ==
    /\ Len(line) >= 2
    /\ line[1] \in {"echo \"ERROR: Invalid input: ", "echo \"ERROR: Request failed: "}
    /\ line[Len(line)] = "\""

\* C26: in every echo "ERROR: ..." line a run prints, the message between the
\* opening and the closing quote holds no double quote, backtick, dollar
\* sign or newline.
C26_ErrorMessageStaysQuoted ==
    \A i \in 1..Len(stdout) :
        IsErrorEchoLine(stdout[i]) =>
            \A k \in 2..(Len(stdout[i]) - 1) :
                stdout[i][k] \notin {"\"", BACKTICK, "$", "\n"}

-----------------------------------------------------------------------------
(* The standalone entry point against the class-based driver *)

\* C27: openai_backend.main and OpenAIBackend run through LLMBackend.run are
\* observationally equivalent: for the same mode, environment, stdin text and
\* API outcome both print the same stdout and end with the same exit code.
C27_StandaloneEqualsClassDriver ==
    (backend = "openai" /\ pc = "exited") =>
        LET alone == StandaloneMain(mode, env, validation, reply)
        IN /\ stdout = alone.stdout
           /\ exitCode = alone.exitCode

-----------------------------------------------------------------------------
(* Properties of install() and uninstall() *)

\* one of the tool's lines: a marker line, the source line and its comment,
\* a bindkey line and the comment above them
IsToolLine(line) ==
    \/ StripLine(line) \in {begin_marker(SOURCE_BLOCK), end_marker(SOURCE_BLOCK),
                            begin_marker(KEYBINDINGS_BLOCK), end_marker(KEYBINDINGS_BLOCK)}
    \/ line \in {SOURCE_LINE, LEGACY_SOURCE_COMMENT, LEGACY_BINDINGS_COMMENT}
    \/ \E b \in 1..Len(KEY_BINDINGS) : line = KEY_BINDINGS[b]

\* the first run found a shell config without any of the tool's lines
CleanOrigin ==
    /\ origin # NoConfigFile
    /\ \A i \in 1..Len(origin) : ~IsToolLine(origin[i])

\* how many lines of the config source the installed script
SourceLines == Cardinality({i \in 1..Len(config) : LineContains(config[i], SOURCE_LINE)})

\* an install run has ended in which every prompt shown was answered yes and
\* nothing failed
AllYesInstallEnded ==
    /\ ipc = "idle"
    /\ session.command = "install"
    /\ ~session.aborted
    /\ ~session.failed
    /\ session.yeses = session.prompts

\* C28: from a shell config without any of the tool's lines, whatever runs of
\* install and uninstall came before, when an install run ends in which every
\* prompt shown was answered yes the config has the source line exactly once;
\* and an install run says "Already configured" only when the source line is
\* in the config.
C28_AllYesInstallSourcesOnce ==
    CleanOrigin =>
        /\ AllYesInstallEnded => SourceLines = 1
        /\ (session.command = "install" /\ stage.name = "install_source"
                /\ stage.said = "already_configured") => SourceLines >= 1

\* the first line after line i that is the END marker of the block, 0 when none is
MatchingEnd(lines, i, block_name) ==
    LET ends == {j \in (i + 1)..Len(lines) : StripLine(lines[j]) = end_marker(block_name)}
    IN IF ends = {} THEN 0 ELSE CHOOSE j \in ends : \A k \in ends : j <= k

\* the block a BEGIN marker line opens, "none" for any other line
BlockOpenedBy(line) ==
    IF StripLine(line) = begin_marker(SOURCE_BLOCK) THEN SOURCE_BLOCK
    ELSE IF StripLine(line) = begin_marker(KEYBINDINGS_BLOCK) THEN KEYBINDINGS_BLOCK
    ELSE "none"

RECURSIVE UserLinesOutsideFrom(_, _)
\* the lines from line i on that are none of the tool's lines and lie outside
\* every BEGIN marker line with its matching END marker line
UserLinesOutsideFrom(lines, i) ==
    IF i > Len(lines) THEN <<>>
    ELSE IF BlockOpenedBy(lines[i]) # "none" /\ MatchingEnd(lines, i, BlockOpenedBy(lines[i])) # 0
         THEN UserLinesOutsideFrom(lines, MatchingEnd(lines, i, BlockOpenedBy(lines[i])) + 1)
    ELSE (IF IsToolLine(lines[i]) THEN <<>> ELSE <<lines[i]>>)
         \o UserLinesOutsideFrom(lines, i + 1)

UserLinesOutside(lines) == UserLinesOutsideFrom(lines, 1)

RECURSIVE IsSubsequenceFrom(_, _, _, _)
\* a from its line i on is found in b from its line j on, in order
IsSubsequenceFrom(a, i, b, j) ==
    IF i > Len(a) THEN TRUE
    ELSE IF j > Len(b) THEN FALSE
    ELSE IF a[i] = b[j] THEN IsSubsequenceFrom(a, i + 1, b, j + 1)
    ELSE IsSubsequenceFrom(a, i, b, j + 1)

\* C29: a stage of uninstall removes only the tool's own lines: every line of
\* the config that is none of the tool's lines and lies outside every BEGIN
\* marker line with its matching END marker line is still in the config after
\* the stage, in the original order.
C29_UninstallKeepsUserLines ==
    [][(ipc = "uninstall_source" \/ ipc = "uninstall_keys")
          => IsSubsequenceFrom(UserLinesOutside(config), 1, config', 1)]_vars

\* the answer typed at the stage's prompt is a yes
TypedYes(s) == s.asked /\ LowerResponse(s.response) \in {"y", "yes"}

\* C30: install and uninstall write the shell config only in a stage whose
\* prompt was answered yes and after a backup of the file as it was has been
\* attempted; a stage whose prompt is declined (the empty answer included),
\* that finds the file already configured, or whose write fails before the
\* rename leaves the config as it was.
C30_WritesOnlyAfterYesAndBackup ==
    [][/\ (config' # config \/ (ipc # "idle" /\ stage'.write # "none")) =>
            /\ ipc # "idle"
            /\ TypedYes(stage')
            /\ stage'.backup \in {"created", "failed"}
            /\ stage'.backup = "created" => lastBackup' = config
       /\ (ipc # "idle" /\ (\/ ~TypedYes(stage')
                             \/ stage'.response = ""
                             \/ stage'.said = "already_configured"
                             \/ stage'.write = "failed")) => config' = config]_vars

\* install() appended the source block to the first config after a "Yes", the
\* backup holding the config as it was
C30_Witness ==
    /\ origin = <<"alias a=b", "">>
    /\ stage.name = "install_source"
    /\ stage.response = "Yes"
    /\ stage.backup = "created"
    /\ stage.write = "replaced"
    /\ lastBackup = origin
    /\ config = <<"alias a=b", "", "# BEGIN zsh-llm-suggestions", SOURCE_LINE,
                  "# END zsh-llm-suggestions", "">>

====
